---- MODULE Spec2Model ----
(***************************************************************************)
(* ImageRequest.setup of image-handler/image-request.js: request dialect   *)
(* classification, key / bucket resolution, signature validation, origin   *)
(* fetch with the default.jpg substitution, output-format negotiation and  *)
(* the quality-key fix-up.                                                 *)
(*                                                                         *)
(* A JavaScript string that the code indexes, splits or searches is a      *)
(* sequence of lexemes (one-character strings for bucket names, whole      *)
(* path tokens such as "10x10" or "cat.jpg" for paths and keys).  Strings  *)
(* that are only compared (formats, content types, error codes) are TLA+   *)
(* strings.                                                                *)
(***************************************************************************)
EXTENDS Integers, Sequences, FiniteSets, TLC

\* ------------------------------------------------------------------ bounds
MaxSegs == 2        \* path segments of a Thumbor/Custom request
MaxBuckets == 2     \* entries of SOURCE_BUCKETS
MaxEdits == 2       \* keys of an edits mapping

\* ------------------------------------------------------- JavaScript values
Undef == "undefined"                        \* undefined, for compared strings
UndefStr == <<"#undefined">>                \* undefined, for lexeme strings
UndefEdits == <<[k |-> "#undefined", v |-> "#undefined"]>>

\* String.prototype.includes
Includes(s, sub) ==
  \E i \in 0..(Len(s) - Len(sub)) : SubSeq(s, i + 1, i + Len(sub)) = sub

\* String.prototype.lastIndexOf, 1-based; 0 when absent (JavaScript's -1 + 1)
LastIndexOf(s, c) ==
  IF \E i \in 1..Len(s) : s[i] = c
  THEN CHOOSE i \in 1..Len(s) : s[i] = c /\ \A j \in (i + 1)..Len(s) : s[j] # c
  ELSE 0

\* String.prototype.indexOf, 1-based; 0 when absent
IndexOf(s, c) ==
  IF \E i \in 1..Len(s) : s[i] = c
  THEN CHOOSE i \in 1..Len(s) : s[i] = c /\ \A j \in 1..(i - 1) : s[j] # c
  ELSE 0

\* String.prototype.split(sep)
RECURSIVE Split(_, _)
Split(s, sep) ==
  LET i == IndexOf(s, sep) IN
  IF i = 0 THEN <<s>>
  ELSE <<SubSeq(s, 1, i - 1)>> \o Split(SubSeq(s, i + 1, Len(s)), sep)

\* s.replace(/^\/+/, '')
RECURSIVE DropLeadingSlashes(_)
DropLeadingSlashes(s) ==
  IF s # <<>> /\ Head(s) = "/" THEN DropLeadingSlashes(Tail(s)) ELSE s

\* s.replace(/\s+/g, '')
RemoveWhitespace(s) == SelectSeq(s, LAMBDA c : c # " ")

\* join of a list of strings with a separator string
RECURSIVE Join(_, _)
Join(list, sep) ==
  IF list = <<>> THEN <<>>
  ELSE IF Len(list) = 1 THEN list[1]
  ELSE list[1] \o sep \o Join(Tail(list), sep)

\* all sequences over S of length 0..n
SeqsUpTo(S, n) == UNION {[1..m -> S] : m \in 0..n}

\* ------------------------------------------------------------ lib constants
RequestTypes == [DEFAULT |-> "Default", THUMBOR |-> "Thumbor", CUSTOM |-> "Custom"]

ImageFormatTypes ==
  [JPEG |-> "jpeg", PNG |-> "png", WEBP |-> "webp", TIFF |-> "tiff", HEIF |-> "heif"]

StatusCodes ==
  [BAD_REQUEST |-> 400, FORBIDDEN |-> 403, NOT_FOUND |-> 404,
   INTERNAL_SERVER_ERROR |-> 500]

\* no error thrown yet
NoError == [kind |-> "none", status |-> 0, code |-> Undef, message |-> Undef]

\* new ImageHandlerError(status, code, message)
ImageHandlerError(status, code, message) ==
  [kind |-> "ImageHandlerError", status |-> status, code |-> code,
   message |-> message]

\* an error thrown by the runtime (TypeError, URIError): no status, no code
RuntimeError(kind) ==
  [kind |-> kind, status |-> 0, code |-> Undef, message |-> kind]

\* ------------------------------------------------------------------ lexemes
\* Lexemes of request paths.  B64 is a blob matching the strict base64
\* grammar whose bytes parse as JSON; B64URL is a blob that Buffer.from
\* decodes to JSON although it does not match the strict grammar; "cats" is
\* a word of the base64 alphabet whose bytes are no JSON.
B64 == "<b64>"
B64URL == "<b64url>"
CropTokens == {"10x10:20x20"}        \* \d+x\d+:\d+x\d+
ResizeTokens == {"10x10"}            \* \d+x\d+
FilterTokens == {"filters:blur(7)"}  \* filters:[^/]+
UnknownExtNames == {"cat.gif"}       \* names ending in an extension the Thumbor grammar rejects
MalformedEscapes == {"%zz"}          \* decodeURIComponent throws URIError on these
DefaultImage == "default.jpg"

\* number of characters of a lexeme when every one of them is in the base64
\* alphabet [0-9a-zA-Z+/], -1 otherwise; the blob B64 ends in "=" padding, which
\* the grammar admits at the end only
Base64Chars(tok) ==
  CASE tok = "/" -> 1
    [] tok = "img" -> 3
    [] tok = "cats" -> 4
    [] tok = "10x10" -> 5
    [] tok = B64 -> 4
    [] OTHER -> -1

RECURSIVE Base64Length(_)
Base64Length(s) ==
  IF s = <<>> THEN 0
  ELSE LET h == Base64Chars(Head(s))
           t == Base64Length(Tail(s))
       IN IF h < 0 \/ t < 0 \/ (Head(s) = B64 /\ Tail(s) # <<>>) THEN -1 ELSE h + t

\* decodeURIComponent of one lexeme
DecodeLexeme(tok) == IF tok = "my%20cat.jpg" THEN "my cat.jpg" ELSE tok

\* ---------------------------------------------------------------- decodeRequest
\* the record carried by a path that is no JSON blob
\* a JSON value read as a number: a number in tenths, null, a non-numeric
\* string, or the property missing altogether
NoValue == [type |-> "undefined", tenths |-> 0]
JsonNumber(tenths) == [type |-> "number", tenths |-> tenths]
JsonNull == [type |-> "null", tenths |-> 0]
JsonText == [type |-> "text", tenths |-> 0]

NoPayload ==
  [type |-> "none", bucket |-> UndefStr, key |-> UndefStr, edits |-> UndefEdits,
   outputFormat |-> Undef, reductionEffort |-> NoValue]

Ok(v) == [err |-> NoError, val |-> v]
Throw(e, v) == [err |-> e, val |-> v]

decodeRequest(event) ==
  IF event.path # <<>>
  THEN LET encoded == IF Head(event.path) = "/" THEN Tail(event.path) ELSE event.path
       IN IF Len(encoded) = 1 /\ encoded[1] \in {B64, B64URL}
          THEN Ok(event.payload)
          ELSE Throw(ImageHandlerError(StatusCodes.BAD_REQUEST,
                       "DecodeRequest::CannotDecodeRequest", "could not be decoded"),
                     NoPayload)
  ELSE Throw(ImageHandlerError(StatusCodes.BAD_REQUEST,
               "DecodeRequest::CannotReadPath", "could not be read"),
             NoPayload)

\* ------------------------------------------------------------- parseRequestType
\* /^(\/?)([0-9a-zA-Z+/]{4})*(([0-9a-zA-Z+/]{2}==)|([0-9a-zA-Z+/]{3}=))?$/
matchDefault(path) ==
  \/ Base64Length(path) >= 0 /\ Base64Length(path) % 4 = 0
  \/ /\ path # <<>> /\ Head(path) = "/"
     /\ Base64Length(Tail(path)) >= 0 /\ Base64Length(Tail(path)) % 4 = 0

\* the Thumbor grammar rejects exactly the paths that end in a file
\* extension other than jpg, png, webp, tiff, jpeg, svg
matchThumbor(path) ==
  path = <<>> \/ path[Len(path)] \notin UnknownExtNames

definedEnvironmentVariables(env) ==
  /\ env.REWRITE_MATCH_PATTERN # <<>>
  /\ env.REWRITE_SUBSTITUTION # <<>>
  /\ env.REWRITE_MATCH_PATTERN # UndefStr
  /\ env.REWRITE_SUBSTITUTION # UndefStr

\* a classifier that looks at the rewrite configuration first
parseRequestTypeCustomFirst(event, env) ==
  IF definedEnvironmentVariables(env)
  THEN Ok(RequestTypes.CUSTOM)
  ELSE IF matchDefault(event.path) /\ decodeRequest(event).err = NoError
  THEN Ok(RequestTypes.DEFAULT)
  ELSE IF matchThumbor(event.path)
  THEN Ok(RequestTypes.THUMBOR)
  ELSE Throw(ImageHandlerError(StatusCodes.BAD_REQUEST, "RequestTypeError",
               "type of request could not be processed"), Undef)

parseRequestType(event, env) ==
  LET isBase64Encoded == decodeRequest(event).err = NoError IN
  IF matchDefault(event.path) /\ isBase64Encoded
  THEN Ok(RequestTypes.DEFAULT)
  ELSE IF definedEnvironmentVariables(env)
  THEN Ok(RequestTypes.CUSTOM)
  ELSE IF matchThumbor(event.path)
  THEN Ok(RequestTypes.THUMBOR)
  ELSE Throw(ImageHandlerError(StatusCodes.BAD_REQUEST, "RequestTypeError",
               "type of request could not be processed"), Undef)

\* ---------------------------------------------------------------- parseImageKey
\* first index >= i of s holding "/", or Len(s) + 1
RECURSIVE NextSlash(_, _)
NextSlash(s, i) ==
  IF i > Len(s) \/ s[i] = "/" THEN i ELSE NextSlash(s, i + 1)

\* first index >= i of s not holding "/", or Len(s) + 1
RECURSIVE NextNonSlash(_, _)
NextNonSlash(s, i) ==
  IF i > Len(s) \/ s[i] # "/" THEN i ELSE NextNonSlash(s, i + 1)

\* path.replace(/\/\d+x\d+:\d+x\d+\/|(?<=\/)\d+x\d+\/|filters:[^/]+|\/fit-in(?=\/)|^\/+/g, '')
\* scanning from index i: the alternatives are tried in order at each position
RECURSIVE StripFrom(_, _)
StripFrom(p, i) ==
  LET at(j) == IF j >= 1 /\ j <= Len(p) THEN p[j] ELSE "" IN
  IF i > Len(p) THEN <<>>
  ELSE IF at(i) = "/" /\ at(i + 1) \in CropTokens /\ at(i + 2) = "/"
  THEN StripFrom(p, i + 3)
  ELSE IF at(i - 1) = "/" /\ at(i) \in ResizeTokens /\ at(i + 1) = "/"
  THEN StripFrom(p, i + 2)
  ELSE IF at(i) \in FilterTokens
  THEN StripFrom(p, NextSlash(p, i))
  ELSE IF at(i) = "/" /\ at(i + 1) = "fit-in" /\ at(i + 2) = "/"
  THEN StripFrom(p, i + 2)
  ELSE IF i = 1 /\ at(i) = "/"
  THEN StripFrom(p, NextNonSlash(p, i))
  ELSE <<p[i]>> \o StripFrom(p, i + 1)

StripTokens(path) == DropLeadingSlashes(StripFrom(path, 1))

\* decodeURIComponent
decodeURIComponent(s) ==
  IF \E i \in 1..Len(s) : s[i] \in MalformedEscapes
  THEN Throw(RuntimeError("URIError"), UndefStr)
  ELSE Ok([i \in 1..Len(s) |-> DecodeLexeme(s[i])])

\* s.replace(regExp, substitution) for a pattern of literal lexemes
RECURSIVE ReplacePattern(_, _, _, _)
ReplacePattern(s, pat, sub, global) ==
  IF \E i \in 0..(Len(s) - Len(pat)) : SubSeq(s, i + 1, i + Len(pat)) = pat
  THEN LET i == CHOOSE i \in 0..(Len(s) - Len(pat)) :
                  /\ SubSeq(s, i + 1, i + Len(pat)) = pat
                  /\ \A j \in 0..(i - 1) : SubSeq(s, j + 1, j + Len(pat)) # pat
           rest == SubSeq(s, i + Len(pat) + 1, Len(s))
       IN SubSeq(s, 1, i) \o sub \o
          (IF global /\ pat # <<>> THEN ReplacePattern(rest, pat, sub, global) ELSE rest)
  ELSE s

\* the rewrite of a Custom request's path (parseImageKey, lines 305-314)
rewritePath(path, env) ==
  LET REWRITE_MATCH_PATTERN == env.REWRITE_MATCH_PATTERN
      patternStrings == Split(REWRITE_MATCH_PATTERN, "/")
      flags == patternStrings[Len(patternStrings)]
      parsedPatternString ==
        SubSeq(REWRITE_MATCH_PATTERN, 2, Len(REWRITE_MATCH_PATTERN) - 1 - Len(flags))
  IN ReplacePattern(path, parsedPatternString, env.REWRITE_SUBSTITUTION,
                    Includes(flags, <<"g">>))

parseImageKey(event, env, requestType) ==
  IF requestType = RequestTypes.DEFAULT
  THEN LET decoded == decodeRequest(event) IN
       IF decoded.err # NoError THEN Throw(decoded.err, UndefStr)
       ELSE IF decoded.val.type = "null"
       THEN Throw(RuntimeError("TypeError"), UndefStr)  \* const {key} = null
       ELSE Ok(decoded.val.key)
  ELSE IF requestType \in {RequestTypes.THUMBOR, RequestTypes.CUSTOM}
  THEN LET path == IF requestType = RequestTypes.CUSTOM
                   THEN rewritePath(event.path, env)
                   ELSE event.path
       IN decodeURIComponent(StripTokens(path))
  ELSE Throw(ImageHandlerError(StatusCodes.NOT_FOUND, "ImageEdits::CannotFindImage",
               "image could not be found"), UndefStr)

\* ------------------------------------------------------------- bucket resolution
UndefList == <<UndefStr>>     \* SOURCE_BUCKETS unset

getAllowedSourceBuckets(env) ==
  IF env.SOURCE_BUCKETS = UndefStr
  THEN Throw(ImageHandlerError(StatusCodes.BAD_REQUEST,
               "GetAllowedSourceBuckets::NoSourceBuckets",
               "SOURCE_BUCKETS could not be read"), UndefList)
  ELSE Ok(Split(RemoveWhitespace(env.SOURCE_BUCKETS), ","))

\* sourceBuckets.forEach: every entry containing targetBucket overwrites the result
RECURSIVE forEachBucket(_, _, _)
forEachBucket(sourceBuckets, targetBucket, find_bucket_name) ==
  IF sourceBuckets = <<>> THEN find_bucket_name
  ELSE forEachBucket(Tail(sourceBuckets), targetBucket,
         IF Includes(Head(sourceBuckets), targetBucket)
         THEN Head(sourceBuckets)
         ELSE find_bucket_name)

\* a resolver that hands back the alias it was asked about
checkImageBucketAlias(sourceBuckets, targetBucket, env) ==
  IF \E i \in 1..Len(sourceBuckets) : Includes(sourceBuckets[i], targetBucket)
  THEN targetBucket
  ELSE env.DEFAULT_FALLBACK_IMAGE_BUCKET

checkImageBucket(sourceBuckets, targetBucket, env) ==
  forEachBucket(sourceBuckets, targetBucket, env.DEFAULT_FALLBACK_IMAGE_BUCKET)

\* request.bucket.match(new RegExp('^' + pattern + '$')) for a pattern of
\* bucket-name characters: "." matches any one character, the others themselves
matchAnchored(pattern, s) ==
  /\ Len(pattern) = Len(s)
  /\ \A i \in 1..Len(s) : pattern[i] = "." \/ pattern[i] = s[i]

parseImageBucket(event, env, requestType, image_key) ==
  LET allowed == getAllowedSourceBuckets(env)
      sourceBuckets == allowed.val
      targetBucket == Split(image_key, "/")[1]
      request == decodeRequest(event).val
  IN
  IF allowed.err # NoError THEN Throw(allowed.err, UndefStr)
  ELSE IF image_key = UndefStr
  THEN Throw(RuntimeError("TypeError"), UndefStr)   \* undefined.split
  ELSE IF requestType = RequestTypes.DEFAULT
  THEN IF request.bucket # UndefStr
       THEN IF \/ \E i \in 1..Len(sourceBuckets) : sourceBuckets[i] = request.bucket
               \/ matchAnchored(sourceBuckets[1], request.bucket)
            THEN Ok(request.bucket)
            ELSE Throw(ImageHandlerError(StatusCodes.FORBIDDEN,
                         "ImageBucket::CannotAccessBucket",
                         "bucket could not be accessed"), UndefStr)
       ELSE Ok(checkImageBucket(sourceBuckets, targetBucket, env))
  ELSE IF requestType \in {RequestTypes.THUMBOR, RequestTypes.CUSTOM}
  THEN Ok(checkImageBucket(sourceBuckets, targetBucket, env))
  ELSE Throw(ImageHandlerError(StatusCodes.NOT_FOUND,
               "ImageBucket::CannotFindBucket", "bucket could not be found"),
             UndefStr)

\* ----------------------------------------------------------------------- edits
\* An edits object is its entries in property order: <<[k |-> key, v |-> value], ...>>
HasKey(edits, key) == \E i \in 1..Len(edits) : edits[i].k = key

GetKey(edits, key) ==
  IF HasKey(edits, key)
  THEN edits[CHOOSE i \in 1..Len(edits) : edits[i].k = key].v
  ELSE Undef

\* edits[key] = value: an existing property keeps its place, a new one is appended
SetKey(edits, key, value) ==
  IF HasKey(edits, key)
  THEN [i \in 1..Len(edits) |->
          IF edits[i].k = key THEN [k |-> key, v |-> value] ELSE edits[i]]
  ELSE Append(edits, [k |-> key, v |-> value])

\* delete edits[key]
DeleteKey(edits, key) == SelectSeq(edits, LAMBDA e : e.k # key)

\* ThumborMapper.mapPathToEdits (thumbor-mapper.js): the ordered mapping of
\* edit operations it reads from the path, carried by the event
mapPathToEdits(event) == event.mapped

parseImageEdits(event, requestType) ==
  IF requestType = RequestTypes.DEFAULT
  THEN Ok(decodeRequest(event).val.edits)
  ELSE IF requestType \in {RequestTypes.THUMBOR, RequestTypes.CUSTOM}
  THEN Ok(mapPathToEdits(event))
  ELSE Throw(ImageHandlerError(StatusCodes.BAD_REQUEST,
               "ImageEdits::CannotParseEdits", "edits could not be parsed"),
             UndefEdits)

\* --------------------------------------------------------------- content types
SvgType == <<"image/", "svg+xml">>
OctetStreamTypes == {<<"binary/", "octet-stream">>, <<"application/", "octet-stream">>}
ImageType(format) == <<"image/", format>>       \* `image/${format}`

inferImageType(imageSignature) ==
  CASE imageSignature = "89504E47" -> Ok(ImageType("png"))
    [] imageSignature \in {"FFD8FFDB", "FFD8FFE0", "FFD8FFEE", "FFD8FFE1"} ->
         Ok(ImageType("jpeg"))
    [] imageSignature = "52494646" -> Ok(ImageType("webp"))
    [] imageSignature \in {"49492A00", "4D4D002A"} -> Ok(ImageType("tiff"))
    [] OTHER -> Throw(ImageHandlerError(StatusCodes.INTERNAL_SERVER_ERROR,
                        "RequestTypeError", "file type could not be inferred"),
                      UndefStr)

\* getOriginalImage, from the reply of s3Client.getObject on: the content type
\* of the fetched object, or the error thrown
getOriginalImage(reply) ==
  IF reply.code = "ok"
  THEN IF reply.ContentType # UndefStr
       THEN IF reply.ContentType \in OctetStreamTypes
            THEN LET inferred == inferImageType(reply.signature) IN
                 IF inferred.err = NoError THEN inferred
                 ELSE Throw(ImageHandlerError(StatusCodes.INTERNAL_SERVER_ERROR,
                              inferred.err.code, inferred.err.message), UndefStr)
            ELSE Ok(reply.ContentType)
       ELSE Ok(<<"image">>)
  ELSE IF reply.code = "NoSuchKey"
  THEN Throw(ImageHandlerError(StatusCodes.NOT_FOUND, reply.code,
               "image does not exist"), UndefStr)
  ELSE Throw(ImageHandlerError(StatusCodes.INTERNAL_SERVER_ERROR, reply.code,
               reply.code), UndefStr)

\* a substitution that forgets the directory of the requested key
fallbackKeyAtRoot(originKey) == <<DefaultImage>>

\* the key fetched after the first getObject failed (setup, lines 66-70)
fallbackKey(originKey) ==
  SubSeq(originKey, 1, LastIndexOf(originKey, "/")) \o <<DefaultImage>>

\* ------------------------------------------------------------ getOutputFormat
\* a negotiation that prefers the record's outputFormat to the Accept header
getOutputFormatRecordFirst(event, env, requestType) ==
  IF requestType = RequestTypes.DEFAULT /\ decodeRequest(event).val.outputFormat # Undef
  THEN Ok(decodeRequest(event).val.outputFormat)
  ELSE IF env.AUTO_WEBP = "Yes" /\ ~event.headers.defined
  THEN Throw(RuntimeError("TypeError"), Undef)
  ELSE IF /\ env.AUTO_WEBP = "Yes"
          /\ event.headers.Accept # UndefStr
          /\ Includes(event.headers.Accept, <<"image/webp">>)
  THEN Ok(ImageFormatTypes.WEBP)
  ELSE Ok(Undef)

getOutputFormat(event, env, requestType) ==
  IF env.AUTO_WEBP = "Yes" /\ ~event.headers.defined
  THEN Throw(RuntimeError("TypeError"), Undef)     \* event.headers.Accept
  ELSE IF /\ env.AUTO_WEBP = "Yes"
          /\ event.headers.Accept # UndefStr
          /\ Includes(event.headers.Accept, <<"image/webp">>)
  THEN Ok(ImageFormatTypes.WEBP)
  ELSE IF requestType = RequestTypes.DEFAULT
  THEN Ok(decodeRequest(event).val.outputFormat)
  ELSE Ok(Undef)

\* ----------------------------------------------- output format (setup, 78-118)
\* a rule that rasterizes SVG originals for Default requests only
svgForcesPngForDefault(info) ==
  /\ info.requestType = RequestTypes.DEFAULT
  /\ info.contentType = SvgType
  /\ info.edits # UndefEdits
  /\ Len(info.edits) > 0
  /\ ~HasKey(info.edits, "toFormat")

svgForcesPng(info) ==
  /\ info.contentType = SvgType
  /\ info.edits # UndefEdits
  /\ Len(info.edits) > 0
  /\ ~HasKey(info.edits, "toFormat")

\* ImageRequest.DEFAULT_REDUCTION_EFFORT
DEFAULT_REDUCTION_EFFORT == 4

\* imageRequestInfo.reductionEffort: absent, or an integer
NoEffort == [defined |-> FALSE, value |-> 0]
Effort(n) == [defined |-> TRUE, value |-> n]

\* Math.trunc of a JSON value: NaN for a non-numeric string, 0 for null, the
\* number without its fractional digits otherwise
NaN == [nan |-> TRUE, value |-> 0]
\* a conversion that rounds down instead of dropping the fractional digits
MathFloor(v) ==
  IF v.type = "text" THEN NaN
  ELSE IF v.type = "null" THEN [nan |-> FALSE, value |-> 0]
  ELSE [nan |-> FALSE, value |-> v.tenths \div 10]

MathTrunc(v) ==
  IF v.type = "text" THEN NaN
  ELSE IF v.type = "null" THEN [nan |-> FALSE, value |-> 0]
  ELSE [nan |-> FALSE,
        value |-> IF v.tenths >= 0 THEN v.tenths \div 10 ELSE -((-v.tenths) \div 10)]

\* setup lines 98-112
setReductionEffort(info, outputFormat, event) ==
  IF outputFormat = ImageFormatTypes.WEBP /\ info.requestType = RequestTypes.DEFAULT
  THEN LET decoded == decodeRequest(event).val IN
       IF decoded.reductionEffort.type # "undefined"
       THEN LET reductionEffort == MathTrunc(decoded.reductionEffort)
                isValid == /\ ~reductionEffort.nan
                           /\ reductionEffort.value >= 0
                           /\ reductionEffort.value <= 6
            IN [info EXCEPT !.reductionEffort =
                  IF isValid THEN Effort(reductionEffort.value)
                  ELSE Effort(DEFAULT_REDUCTION_EFFORT)]
       ELSE info
  ELSE info

decideOutputFormat(info, event, env) ==
  LET svg == IF svgForcesPng(info)
             THEN [info EXCEPT !.outputFormat = ImageFormatTypes.PNG]
             ELSE info
      outputFormat == getOutputFormat(event, env, svg.requestType)
      forced == setReductionEffort(svg, outputFormat.val, event)
  IN
  IF svg.contentType = SvgType /\ svg.edits = UndefEdits
  THEN Throw(RuntimeError("TypeError"), svg)       \* undefined.toFormat
  ELSE IF \/ svg.contentType # SvgType
          \/ HasKey(svg.edits, "toFormat")
          \/ svg.outputFormat # Undef
  THEN IF outputFormat.err # NoError THEN Throw(outputFormat.err, svg)
       ELSE IF forced.edits # UndefEdits /\ HasKey(forced.edits, "toFormat")
       THEN Ok([forced EXCEPT !.outputFormat = GetKey(forced.edits, "toFormat")])
       ELSE IF outputFormat.val # Undef
       THEN Ok([forced EXCEPT !.outputFormat = outputFormat.val])
       ELSE Ok(forced)
  ELSE Ok(svg)

\* ----------------------------------------- quality-key fix-up (setup, 119-143)
acceptedValues ==
  <<ImageFormatTypes.JPEG, ImageFormatTypes.PNG, ImageFormatTypes.WEBP,
    ImageFormatTypes.TIFF, ImageFormatTypes.HEIF>>

IsAccepted(x) == \E i \in 1..Len(acceptedValues) : acceptedValues[i] = x

\* a filter that keeps the last recognized key instead of the first
qualityKeyOfLast(edits) ==
  LET found == SelectSeq(edits, LAMBDA e : IsAccepted(e.k)) IN
  IF found = <<>> THEN Undef ELSE found[Len(found)].k

\* Object.keys(edits).filter(key => acceptedValues.includes(key))[0]
qualityKeyOf(edits) ==
  LET found == SelectSeq(edits, LAMBDA e : IsAccepted(e.k)) IN
  IF found = <<>> THEN Undef ELSE found[1].k

renameQualityKey(edits, qualityKey, outputFormat) ==
  DeleteKey(SetKey(edits, outputFormat, GetKey(edits, qualityKey)), qualityKey)

fixQuality(info) ==
  IF info.outputFormat # Undef
  THEN LET typed == [info EXCEPT !.contentType = ImageType(info.outputFormat)]
           qualityKey == qualityKeyOf(info.edits)
       IN IF /\ info.requestType \in {RequestTypes.CUSTOM, RequestTypes.THUMBOR}
             /\ IsAccepted(info.outputFormat)
             /\ qualityKey # Undef
             /\ qualityKey # info.outputFormat
          THEN [typed EXCEPT !.edits =
                  renameQualityKey(info.edits, qualityKey, info.outputFormat)]
          ELSE typed
  ELSE info

\* ------------------------------------------------------------ signature check
NoSignature == <<"#undefined">>     \* queryStringParameters.signature absent

\* createHmac('sha256', key).update(path).digest('hex'): one digest per (key, path)
createHmac(key, path) == <<"hmac-sha256", key>> \o path

\* ======================================================================= state
VARIABLES
  event,        \* the Lambda event: path, decoded payload, headers, signature, mapped edits
  env,          \* process.env
  secret,       \* the value stored under SECRET_KEY in the secret, Undef when missing
  pc,           \* where setup stands
  validation,   \* validateRequestSignature: "pending", "passed" or "failed"
  info,         \* imageRequestInfo
  error,        \* the error setup threw
  descriptor,   \* what setup returned
  gets,         \* the s3Client.getObject calls issued, in order
  replies,      \* the object store's answer to each of them
  secretCalls,  \* number of secretProvider.getSecret calls
  secretAnswer, \* how getSecret ended: "none" (not yet), "value" or "rejected"
  fetched,      \* result.contentType as getOriginalImage returned it
  trace         \* the stages of setup entered so far, in order

vars == <<event, env, secret, pc, validation, info, error, descriptor, gets,
          replies, secretCalls, secretAnswer, fetched, trace>>

EmptyInfo ==
  [requestType |-> Undef, key |-> UndefStr, bucket |-> UndefStr,
   edits |-> UndefEdits, contentType |-> UndefStr, outputFormat |-> Undef,
   reductionEffort |-> NoEffort]

\* --------------------------------------------------------- the object store
StoreCodes == {"ok", "NoSuchKey", "AccessDenied"}

ObjectReply(ContentType, signature) ==
  [code |-> "ok", ContentType |-> ContentType, signature |-> signature]

ErrorReply(code) == [code |-> code, ContentType |-> UndefStr, signature |-> "00000000"]

\* what getObject may answer to getOriginalImage
OriginalReplies ==
  {ObjectReply(UndefStr, "FFD8FFE0"),
   ObjectReply(ImageType("jpeg"), "FFD8FFE0"),
   ObjectReply(SvgType, "3C737667"),
   ObjectReply(<<"binary/", "octet-stream">>, "89504E47"),
   ObjectReply(<<"binary/", "octet-stream">>, "3C737667"),
   ErrorReply("NoSuchKey"),
   ErrorReply("AccessDenied")}

\* ---------------------------------------------------------------- setup steps
\* a validator that never finds signing enabled
validateRequestSignatureOff ==
  /\ pc = "start"
  /\ trace' = Append(trace, "validateRequestSignature")
  /\ pc' = "parse"
  /\ validation' = "passed"
  /\ UNCHANGED <<fetched, event, env, secret, info, descriptor, gets, replies, secretAnswer,
                 error, secretCalls>>

\* setup line 54 up to the await of getSecret
validateRequestSignature ==
  /\ pc = "start"
  /\ trace' = Append(trace, "validateRequestSignature")
  /\ UNCHANGED <<fetched, event, env, secret, info, descriptor, gets, replies, secretAnswer>>
  /\ IF env.ENABLE_SIGNATURE = "Yes"
     THEN IF event.signature = NoSignature
          THEN /\ pc' = "thrown"
               /\ error' = ImageHandlerError(StatusCodes.BAD_REQUEST,
                             "AuthorizationQueryParametersError",
                             "Query-string requires the signature parameter.")
               /\ validation' = "failed"
               /\ UNCHANGED secretCalls
          ELSE /\ pc' = "awaitSecret"
               /\ secretCalls' = secretCalls + 1
               /\ UNCHANGED <<error, validation>>
     ELSE /\ pc' = "parse"
          /\ validation' = "passed"
          /\ UNCHANGED <<error, secretCalls>>

\* a comparison that accepts any digest of the same path, whatever the key
signatureMatchesAnyKey(signature, hash) ==
  Len(signature) = Len(hash) /\ SubSeq(signature, 3, Len(signature)) = SubSeq(hash, 3, Len(hash))

\* signature !== hash, negated (line 521)
signatureMatches(signature, hash) == signature = hash

\* validateRequestSignature from the answer of getSecret on (lines 517-538)
getSecretReturns ==
  /\ pc = "awaitSecret"
  /\ \E answered \in BOOLEAN :
       /\ secretAnswer' = IF answered THEN "value" ELSE "rejected"
       /\ IF answered /\ secret # Undef
          THEN LET hash == createHmac(secret, event.path) IN
               IF ~signatureMatches(event.signature, hash)
               THEN /\ pc' = "thrown"
                    /\ error' = ImageHandlerError(StatusCodes.FORBIDDEN,
                                  "SignatureDoesNotMatch", "Signature does not match.")
                    /\ validation' = "failed"
               ELSE /\ pc' = "parse"
                    /\ validation' = "passed"
                    /\ UNCHANGED error
          ELSE /\ pc' = "thrown"
               /\ error' = ImageHandlerError(StatusCodes.INTERNAL_SERVER_ERROR,
                             "SignatureValidationFailure",
                             "Signature validation failed.")
               /\ validation' = "failed"
  /\ UNCHANGED <<fetched, event, env, secret, info, descriptor, gets, replies, secretCalls,
                 trace>>

\* setup lines 55-65: classification, key, bucket, and the first getObject
parseRequest ==
  /\ pc = "parse"
  /\ LET requestType == parseRequestType(event, env)
         key == parseImageKey(event, env, requestType.val)
         bucket == parseImageBucket(event, env, requestType.val, key.val)
     IN
     IF requestType.err # NoError
     THEN /\ pc' = "thrown"
          /\ error' = requestType.err
          /\ trace' = trace \o <<"parseRequestType">>
          /\ UNCHANGED <<info, gets>>
     ELSE IF key.err # NoError
     THEN /\ pc' = "thrown"
          /\ error' = key.err
          /\ trace' = trace \o <<"parseRequestType", "parseImageKey">>
          /\ info' = [info EXCEPT !.requestType = requestType.val]
          /\ UNCHANGED gets
     ELSE IF bucket.err # NoError
     THEN /\ pc' = "thrown"
          /\ error' = bucket.err
          /\ trace' = trace \o <<"parseRequestType", "parseImageKey", "parseImageBucket">>
          /\ info' = [info EXCEPT !.requestType = requestType.val, !.key = key.val]
          /\ UNCHANGED gets
     ELSE /\ info' = [info EXCEPT !.requestType = requestType.val,
                                  !.key = key.val, !.bucket = bucket.val]
          /\ gets' = Append(gets, [Bucket |-> bucket.val, Key |-> key.val])
          /\ pc' = "awaitProbe"
          /\ trace' = trace \o <<"parseRequestType", "parseImageKey",
                                 "parseImageBucket", "getObject">>
          /\ UNCHANGED error
  /\ UNCHANGED <<fetched, event, env, secret, validation, descriptor, replies, secretCalls,
                 secretAnswer>>

\* setup lines 66-75: the answer to the first getObject, the edits, and the
\* getObject of getOriginalImage
firstGetReturns ==
  /\ pc = "awaitProbe"
  /\ \E code \in StoreCodes :
       LET key == IF code # "ok" THEN fallbackKey(info.key) ELSE info.key
           edits == parseImageEdits(event, info.requestType)
       IN /\ replies' = Append(replies, code)
          /\ info' = [info EXCEPT !.key = key, !.edits = edits.val]
          /\ gets' = Append(gets, [Bucket |-> info.bucket, Key |-> key])
  /\ pc' = "awaitOriginal"
  /\ trace' = trace \o <<"parseImageEdits", "getOriginalImage">>
  /\ UNCHANGED <<fetched, event, env, secret, validation, error, descriptor, secretCalls,
                 secretAnswer>>

\* setup lines 76-144
finishSetup(merged) ==
  LET decided == decideOutputFormat(merged, event, env) IN
  IF decided.err # NoError
  THEN /\ pc' = "thrown"
       /\ error' = decided.err
       /\ info' = decided.val
       /\ UNCHANGED descriptor
  ELSE /\ pc' = "returned"
       /\ info' = fixQuality(decided.val)
       /\ descriptor' = fixQuality(decided.val)
       /\ UNCHANGED error

\* getOriginalImage from the answer of getObject on, and the rest of setup
getOriginalImageReturns ==
  /\ pc = "awaitOriginal"
  /\ \E reply \in OriginalReplies :
       LET originalImage == getOriginalImage(reply) IN
       /\ replies' = Append(replies, reply.code)
       /\ fetched' = originalImage.val
       /\ IF originalImage.err # NoError
          THEN /\ pc' = "thrown"
               /\ error' = originalImage.err
               /\ UNCHANGED <<info, descriptor>>
          ELSE finishSetup([info EXCEPT !.contentType = originalImage.val])
  /\ trace' = IF pc' = "thrown" /\ error'.code \in StoreCodes \cup {"RequestTypeError"}
               THEN trace
               ELSE Append(trace, "decideOutputFormat")
  /\ UNCHANGED <<event, env, secret, validation, gets, secretCalls, secretAnswer>>

Next ==
  \/ validateRequestSignature
  \/ getSecretReturns
  \/ parseRequest
  \/ firstGetReturns
  \/ getOriginalImageReturns

\* ============================================================== initial states
\* ------------------------------------------------------------------- requests
Segments ==
  {"fit-in", "10x10", "10x10:20x20", "filters:blur(7)", "img", "cat.jpg",
   "cat.gif", "my%20cat.jpg", "%zz"}

\* "/" seg "/" seg ... with or without a trailing "/", and the empty path
SegmentPaths ==
  {<<>>} \cup
  {<<"/">> \o Join(segs, <<"/">>) \o trail :
     segs \in {[i \in 1..Len(q) |-> <<q[i]>>] : q \in SeqsUpTo(Segments, MaxSegs)},
     trail \in {<<>>, <<"/">>}}

EditEntries ==
  {[k |-> "toFormat", v |-> "webp"], [k |-> "toFormat", v |-> "gif"],
   [k |-> "jpeg", v |-> "quality 80"], [k |-> "webp", v |-> "quality 50"],
   [k |-> "png", v |-> "quality 60"], [k |-> "resize", v |-> "100x100"]}

\* edits objects: property names are unique
EditsObjects ==
  {e \in SeqsUpTo(EditEntries, MaxEdits) :
     \A i, j \in 1..Len(e) : i # j => e[i].k # e[j].k}

BucketNames == {<<"img", ".", "x">>, <<"img", "-", "x">>, <<"x">>}

\* SOURCE_BUCKETS: unset, or bucket names separated by ", "
SourceBucketsValues ==
  {UndefStr} \cup {Join(l, <<",", " ">>) : l \in SeqsUpTo(BucketNames, MaxBuckets)}

FallbackBuckets == {UndefStr, <<"fallback">>}

Payload(bucket, key, edits, outputFormat) ==
  [type |-> "object", bucket |-> bucket, key |-> key, edits |-> edits,
   outputFormat |-> outputFormat, reductionEffort |-> NoValue]

NullPayload == [NoPayload EXCEPT !.type = "null"]     \* the JSON text null

PlainKey == <<"img", "/", "cat.jpg">>
PlainPayload == Payload(UndefStr, PlainKey, <<>>, Undef)
PlainHeaders == [defined |-> TRUE, Accept |-> UndefStr]
HeaderValues ==
  {[defined |-> FALSE, Accept |-> UndefStr], PlainHeaders,
   [defined |-> TRUE, Accept |-> <<"image/webp", ",", "*/*">>]}

Event(path, payload, headers, signature, mapped) ==
  [path |-> path, payload |-> payload, headers |-> headers,
   signature |-> signature, mapped |-> mapped]

\* a request in the Default dialect carrying payload
DefaultEvent(payload) == Event(<<"/", B64>>, payload, PlainHeaders, NoSignature, <<>>)

\* a request whose path is no JSON blob
PathEvent(path, mapped) == Event(path, NoPayload, PlainHeaders, NoSignature, mapped)

PlainEnv ==
  [ENABLE_SIGNATURE |-> "No", SOURCE_BUCKETS |-> <<"img", "-", "x">>,
   DEFAULT_FALLBACK_IMAGE_BUCKET |-> UndefStr,
   REWRITE_MATCH_PATTERN |-> UndefStr, REWRITE_SUBSTITUTION |-> UndefStr,
   AUTO_WEBP |-> "No"]

\* REWRITE_MATCH_PATTERN / REWRITE_SUBSTITUTION: unset, a rule with an empty
\* substitution, /img/ -> pics, /10x10/g -> (thumb)
RewriteRules ==
  {<<UndefStr, UndefStr>>, <<<<"/", "img", "/">>, <<>>>>,
   <<<<"/", "img", "/">>, <<"pics">>>>,
   <<<<"/", "10x10", "/", "g">>, <<"thumb">>>>}

WithRewrite(e, rule) ==
  [e EXCEPT !.REWRITE_MATCH_PATTERN = rule[1], !.REWRITE_SUBSTITUTION = rule[2]]

\* -------------------------------------------------------------------- families
\* signing and classification
ClassPaths ==
  {<<>>, <<"/", B64>>, <<B64>>, <<"/", B64URL>>, <<"/", "cats">>,
   <<"/", "img", "/", "cat.jpg">>, <<"/", "cat.gif">>, <<"/", "10x10", "/">>}

\* the signature a client sends: none, the digest of the path under the key
\* "k1", the digest under another key, the digest of another path
SignatureOf(kind, path) ==
  CASE kind = "absent" -> NoSignature
    [] kind = "signed" -> createHmac("k1", path)
    [] kind = "other key" -> createHmac("k2", path)
    [] kind = "other path" -> createHmac("k1", path \o <<"/", "other">>)

SigningInputs ==
  {[event |-> Event(path, payload, PlainHeaders, SignatureOf(sig, path), <<>>),
    env |-> [WithRewrite(PlainEnv, rule)
               EXCEPT !.ENABLE_SIGNATURE = enabled, !.SOURCE_BUCKETS = buckets],
    secret |-> key] :
     path \in ClassPaths,
     payload \in {PlainPayload, NullPayload, Payload(UndefStr, UndefStr, <<>>, Undef)},
     sig \in {"absent", "signed", "other key", "other path"},
     rule \in RewriteRules,
     enabled \in {"Yes", "No"},
     buckets \in {UndefStr, <<"img", "-", "x">>},
     key \in {"k1", Undef}}

\* bucket resolution
BucketInputs ==
  {[event |-> ev,
    env |-> [PlainEnv EXCEPT !.SOURCE_BUCKETS = buckets,
                             !.DEFAULT_FALLBACK_IMAGE_BUCKET = fallback],
    secret |-> "k1"] :
     ev \in {DefaultEvent(Payload(bucket, key, <<>>, Undef)) :
               bucket \in {UndefStr} \cup BucketNames \cup {<<"y">>},
               key \in {UndefStr, <<>>, PlainKey, <<"x", "/", "cat.jpg">>, <<"cat.jpg">>}}
            \cup {PathEvent(path, <<>>) :
                    path \in {<<"/", "img", "/", "cat.jpg">>, <<"/", "x">>,
                              <<"/", "10x10", "/">>, <<"/", "cat.jpg">>}},
     buckets \in SourceBucketsValues,
     fallback \in FallbackBuckets}

\* key recovery and origin fetch
PathInputs ==
  {[event |-> PathEvent(path, <<>>), env |-> WithRewrite(PlainEnv, rule),
    secret |-> "k1"] :
     path \in SegmentPaths, rule \in RewriteRules}

\* output format and quality fix-up
FormatInputs ==
  {[event |-> [ev EXCEPT !.headers = headers],
    env |-> [WithRewrite(PlainEnv, rule) EXCEPT !.AUTO_WEBP = webp],
    secret |-> "k1"] :
     ev \in {DefaultEvent(Payload(UndefStr, PlainKey, edits, format)) :
               edits \in EditsObjects \cup {UndefEdits},
               format \in {Undef, "webp", "tiff", "gif"}}
            \cup {PathEvent(<<"/", "img", "/", "cat.jpg">>, mapped) :
                    mapped \in EditsObjects},
     headers \in HeaderValues,
     webp \in {"Yes", "No"},
     rule \in {<<UndefStr, UndefStr>>, <<<<"/", "img", "/">>, <<"pics">>>>}}

\* reductionEffort as a Default record may carry it; numbers are in tenths
EffortValues ==
  {NoValue, JsonNull, JsonText} \cup
  {JsonNumber(t) : t \in {-15, -5, 0, 35, 60, 69, 70}}

\* WebP reduction effort
EffortInputs ==
  {[event |-> [DefaultEvent([Payload(UndefStr, PlainKey, edits, format)
                               EXCEPT !.reductionEffort = effort])
                 EXCEPT !.headers = headers],
    env |-> [PlainEnv EXCEPT !.AUTO_WEBP = webp],
    secret |-> "k1"] :
     edits \in {UndefEdits, <<>>, <<[k |-> "resize", v |-> "100x100"]>>,
                <<[k |-> "toFormat", v |-> "webp"]>>,
                <<[k |-> "toFormat", v |-> "gif"]>>},
     format \in {Undef, "webp", "tiff"},
     effort \in EffortValues,
     headers \in HeaderValues \ {[defined |-> FALSE, Accept |-> UndefStr]},
     webp \in {"Yes", "No"}}

Inputs ==
  SigningInputs \cup BucketInputs \cup PathInputs \cup FormatInputs \cup EffortInputs

Init ==
  /\ \E input \in Inputs :
       /\ event = input.event
       /\ env = input.env
       /\ secret = input.secret
  /\ pc = "start"
  /\ validation = "pending"
  /\ info = EmptyInfo
  /\ error = NoError
  /\ descriptor = EmptyInfo
  /\ gets = <<>>
  /\ replies = <<>>
  /\ secretCalls = 0
  /\ secretAnswer = "none"
  /\ fetched = UndefStr
  /\ trace = <<>>

Spec == Init /\ [][Next]_vars

\* ================================================================== properties
Done == pc \in {"returned", "thrown"}

Entered(stage) == \E i \in 1..Len(trace) : trace[i] = stage

SigningEnabled == env.ENABLE_SIGNATURE = "Yes"

\* the request carries a signature that is not the digest of its path under
\* the key held in the secret
SignatureDiffers ==
  /\ SigningEnabled
  /\ event.signature # NoSignature
  /\ secret # Undef
  /\ event.signature # <<"hmac-sha256", secret>> \o event.path

\* C1, as stated: a request whose signature differs from the digest of its path
\* always ends in Forbidden SignatureDoesNotMatch, with no getObject issued and
\* no descriptor returned, and a getObject is issued only once
\* validateRequestSignature has completed successfully.
C1_MismatchIsAlwaysForbidden ==
  /\ gets # <<>> => validation = "passed"
  /\ SignatureDiffers /\ Done =>
       /\ pc = "thrown"
       /\ error.status = 403
       /\ error.code = "SignatureDoesNotMatch"
       /\ gets = <<>>
       /\ descriptor = EmptyInfo

\* C1, amended: such a request always fails with no getObject issued and no
\* descriptor returned: with Forbidden SignatureDoesNotMatch when getSecret
\* answered, with InternalServerError SignatureValidationFailure when getSecret
\* was rejected; a getObject is issued only once validateRequestSignature has
\* completed successfully, which under signing means the signature matched.
C1_SignatureGatesPipeline ==
  /\ gets # <<>> => validation = "passed"
  /\ validation = "passed" /\ SigningEnabled =>
       /\ secret # Undef
       /\ event.signature = <<"hmac-sha256", secret>> \o event.path
  /\ SignatureDiffers => gets = <<>> /\ descriptor = EmptyInfo /\ pc # "returned"
  /\ SignatureDiffers /\ Done =>
       /\ pc = "thrown"
       /\ secretAnswer = "value" =>
            error.status = 403 /\ error.code = "SignatureDoesNotMatch"
       /\ secretAnswer = "rejected" =>
            error.status = 500 /\ error.code = "SignatureValidationFailure"
       /\ secretAnswer # "none"

\* C1 witness: a signature made with another key was refused as Forbidden
C1_Witness ==
  /\ pc = "thrown"
  /\ SignatureDiffers
  /\ secretAnswer = "value"
  /\ error.code = "SignatureDoesNotMatch"
  /\ gets = <<>>

\* the entries of the allow-list, as a set
AllowList ==
  IF env.SOURCE_BUCKETS = UndefStr THEN {}
  ELSE LET l == Split(RemoveWhitespace(env.SOURCE_BUCKETS), ",")
       IN {l[i] : i \in 1..Len(l)}

BucketsUsed ==
  {gets[i].Bucket : i \in 1..Len(gets)} \cup
  (IF pc = "returned" THEN {descriptor.bucket} ELSE {})

\* the explicit bucket of a Default record fits the first allow-list entry read
\* as an anchored regular expression in which "." stands for any one character
FitsFirstEntryAsRegex(b) ==
  /\ info.requestType = "Default"
  /\ event.payload.bucket = b
  /\ LET first == Split(RemoveWhitespace(env.SOURCE_BUCKETS), ",")[1] IN
     /\ Len(first) = Len(b)
     /\ \A i \in 1..Len(b) : first[i] # b[i] => first[i] = "."

IsJsonBlobPath == event.path \in {<<B64>>, <<"/", B64>>}

RewriteConfigured ==
  /\ env.REWRITE_MATCH_PATTERN \notin {UndefStr, <<>>}
  /\ env.REWRITE_SUBSTITUTION \notin {UndefStr, <<>>}

EndsInUnknownExtension ==
  event.path # <<>> /\ event.path[Len(event.path)] = "cat.gif"

\* C3: once parseRequestType has run, the dialect is Default when the path is
\* strict base64 holding JSON, whatever the rewrite configuration; otherwise
\* Custom when both rewrite values are defined and non-empty, whatever the
\* path; otherwise Thumbor when the path fits the Thumbor grammar; otherwise
\* setup has failed with a bad-request error and no dialect.
C3_ClassificationPriority ==
  Entered("parseRequestType") =>
    IF IsJsonBlobPath THEN info.requestType = "Default"
    ELSE IF RewriteConfigured THEN info.requestType = "Custom"
    ELSE IF ~EndsInUnknownExtension THEN info.requestType = "Thumbor"
    ELSE /\ info.requestType = Undef
         /\ pc = "thrown"
         /\ error.status = 400
         /\ error.code = "RequestTypeError"

\* C3 witness: a JSON blob classified Default although a rewrite rule is set
C3_Witness ==
  /\ info.requestType = "Default"
  /\ IsJsonBlobPath
  /\ RewriteConfigured

StageOrder ==
  <<"validateRequestSignature", "parseRequestType", "parseImageKey",
    "parseImageBucket", "getObject", "parseImageEdits", "getOriginalImage",
    "decideOutputFormat">>

LastStage == IF trace = <<>> THEN "none" ELSE trace[Len(trace)]

FailedWhileParsing ==
  /\ pc = "thrown"
  /\ LastStage \in {"parseRequestType", "parseImageKey", "parseImageBucket"}

\* C4, as stated: the secret provider is called only after classification, key
\* decoding and bucket resolution have succeeded, so a request that fails one
\* of those stages is rejected without the secret provider having been called.
C4_SecretCalledAfterBucketResolution ==
  /\ secretCalls > 0 => Entered("parseImageBucket")
  /\ FailedWhileParsing => secretCalls = 0

\* C4, amended: the stages run in the order signature validation,
\* classification, key decoding, bucket resolution, first fetch, edits, origin
\* fetch, format negotiation; classification starts only after signature
\* validation has succeeded, so with signing enabled the secret provider has
\* been called (once) before any classification, key or bucket error is raised.
C4_SignatureValidationRunsFirst ==
  /\ trace = SubSeq(StageOrder, 1, Len(trace))
  /\ secretCalls <= 1
  /\ pc = "awaitSecret" => trace = <<"validateRequestSignature">> /\ secretCalls = 1
  /\ Entered("parseRequestType") =>
       /\ validation = "passed"
       /\ SigningEnabled => secretCalls = 1 /\ secretAnswer = "value"
       /\ ~SigningEnabled => secretCalls = 0

\* C4 witness: with signing enabled, a request was rejected by classification
\* after the secret provider had been called
C4_Witness ==
  /\ FailedWhileParsing
  /\ error.code = "RequestTypeError"
  /\ SigningEnabled
  /\ secretCalls = 1

\* everything of key up to and including its last "/"
DirectoryPrefix(key) ==
  LET slashes == {i \in 1..Len(key) : key[i] = "/"} IN
  IF slashes = {} THEN <<>>
  ELSE SubSeq(key, 1, CHOOSE i \in slashes : \A j \in slashes : j <= i)

\* C5: when the object store reports not-found for the requested key, the one
\* further getObject goes to the same bucket at the key's directory prefix
\* followed by default.jpg; no request issues more than two getObject calls;
\* when that second getObject reports not-found too, setup fails with NotFound.
C5_SingleDefaultImageRetry ==
  /\ Len(gets) <= 2
  /\ Len(replies) <= Len(gets)
  /\ (Len(replies) >= 1 /\ replies[1] = "NoSuchKey") =>
       /\ Len(gets) = 2
       /\ gets[2].Bucket = gets[1].Bucket
       /\ gets[2].Key = DirectoryPrefix(gets[1].Key) \o <<"default.jpg">>
  /\ replies = <<"NoSuchKey", "NoSuchKey">> =>
       /\ pc = "thrown"
       /\ error.status = 404
       /\ error.code = "NoSuchKey"
       /\ descriptor = EmptyInfo

\* C5 witness: a key inside a directory was not found, nor was its default.jpg
C5_Witness ==
  /\ replies = <<"NoSuchKey", "NoSuchKey">>
  /\ gets[1].Key = <<"img", "/", "cat.jpg">>
  /\ gets[2].Key = <<"img", "/", "default.jpg">>
  /\ error.status = 404

\* C6: when the first getObject fails with an error other than not-found, the
\* key is not rewritten to default.jpg, no default image is served, and setup
\* fails with InternalServerError carrying the underlying error code.
C6_OnlyNotFoundTriggersFallback ==
  (Len(replies) >= 1 /\ replies[1] \notin {"ok", "NoSuchKey"}) =>
    /\ \A i \in 1..Len(gets) : gets[i].Key = gets[1].Key
    /\ pc # "returned"
    /\ pc = "thrown" => error.status = 500 /\ error.code = replies[1]

\* C7: every failure of setup is a structured error with a status code, a
\* machine-readable code and a message, and no descriptor is returned.
C7_EveryFailureIsStructured ==
  pc = "thrown" =>
    /\ error.kind = "ImageHandlerError"
    /\ error.status \in {400, 403, 404, 500}
    /\ error.code # Undef
    /\ error.message # Undef
    /\ descriptor = EmptyInfo

\* C8: the key of every descriptor returned by setup is a non-empty string.
C8_DescriptorKeyNonEmpty ==
  pc = "returned" => descriptor.key # UndefStr /\ descriptor.key # <<>>

\* C9: the outputFormat of every descriptor returned by setup is absent or one
\* of jpeg, png, webp, tiff, heif.
C9_OutputFormatRecognized ==
  pc = "returned" =>
    descriptor.outputFormat \in {Undef, "jpeg", "png", "webp", "tiff", "heif"}

QualityFormats == {"jpeg", "png", "webp", "tiff", "heif"}

Keys(e) == {e[i].k : i \in 1..Len(e)}

Val(e, key) == e[CHOOSE i \in 1..Len(e) : e[i].k = key].v

\* the edits as parsed from the request, before the fix-up
ParsedEdits ==
  IF info.requestType = "Default" THEN event.payload.edits ELSE event.mapped

\* the first property of e, in property order, named after a quality format
FirstQualityKey(e) ==
  LET at == {i \in 1..Len(e) : e[i].k \in QualityFormats} IN
  IF at = {} THEN Undef ELSE e[CHOOSE i \in at : \A j \in at : i <= j].k

\* C10, as stated: the fix-up changes edits only for Thumbor/Custom and only
\* when an output format exists and the first quality key differs from it; then
\* that key is renamed to the output format with its value, and every other key
\* and value, an already present output-format key included, is unchanged.
C10_RenameLeavesOtherKeys ==
  pc = "returned" =>
    LET E == ParsedEdits
        R == descriptor.edits
        format == descriptor.outputFormat
        q == FirstQualityKey(E)
    IN IF /\ descriptor.requestType \in {"Thumbor", "Custom"}
          /\ format # Undef
          /\ q # Undef
          /\ q # format
       THEN /\ Keys(R) = (Keys(E) \ {q}) \cup {format}
            /\ Val(R, format) = Val(E, q)
            /\ \A k \in Keys(E) \ {q} : Val(R, k) = Val(E, k)
       ELSE R = E

\* C10, amended: the fix-up changes edits only for Thumbor/Custom and only when
\* the output format is one of jpeg, png, webp, tiff, heif and the first quality
\* key differs from it; then that key is removed and its value is stored under
\* the output-format key, replacing the value of an output-format key that was
\* already present; every other key keeps its value and its order.
C10_RenameOverwritesOutputFormatKey ==
  pc = "returned" =>
    LET E == ParsedEdits
        R == descriptor.edits
        format == descriptor.outputFormat
        q == FirstQualityKey(E)
    IN IF /\ descriptor.requestType \in {"Thumbor", "Custom"}
          /\ format \in QualityFormats
          /\ q # Undef
          /\ q # format
       THEN /\ Keys(R) = (Keys(E) \ {q}) \cup {format}
            /\ Val(R, format) = Val(E, q)
            /\ SelectSeq(R, LAMBDA e : e.k # format) =
                 SelectSeq(E, LAMBDA e : e.k \notin {q, format})
       ELSE R = E

\* C10 witness: a quality key was renamed onto an output-format key that the
\* edits already held with another value
C10_Witness ==
  /\ pc = "returned"
  /\ descriptor.requestType = "Thumbor"
  /\ descriptor.outputFormat = "webp"
  /\ ParsedEdits = <<[k |-> "jpeg", v |-> "quality 80"], [k |-> "webp", v |-> "quality 50"]>>
  /\ descriptor.edits = <<[k |-> "webp", v |-> "quality 80"]>>

\* the allow-list, in configuration order
AllowListEntries == Split(RemoveWhitespace(env.SOURCE_BUCKETS), ",")

\* the bucket was resolved from the key's first path segment
ResolvedByAlias ==
  /\ gets # <<>>
  /\ \/ info.requestType \in {"Thumbor", "Custom"}
     \/ info.requestType = "Default" /\ event.payload.bucket = UndefStr

\* the first path segment of the key as parsed
KeyAlias == Split(gets[1].Key, "/")[1]

\* positions of the allow-list entries that contain the alias
EntriesWithAlias ==
  {i \in 1..Len(AllowListEntries) : Includes(AllowListEntries[i], KeyAlias)}

\* C11: for a Default request without an explicit bucket and for every
\* Thumbor/Custom request, the resolved bucket is the first allow-list entry
\* that contains the key's first path segment, and the configured fallback
\* bucket (possibly unset) when no entry contains it.
C11_FirstEntryContainingAlias ==
  ResolvedByAlias =>
    IF EntriesWithAlias = {}
    THEN gets[1].Bucket = env.DEFAULT_FALLBACK_IMAGE_BUCKET
    ELSE gets[1].Bucket =
           AllowListEntries[CHOOSE i \in EntriesWithAlias :
                              \A j \in EntriesWithAlias : i <= j]

\* the fetched original is SVG, the edits are non-empty and hold no toFormat
SvgWithEditsAndNoFormat ==
  /\ pc = "returned"
  /\ fetched = SvgType
  /\ ParsedEdits # UndefEdits
  /\ ParsedEdits # <<>>
  /\ "toFormat" \notin Keys(ParsedEdits)

\* the auto-WebP flag is on and the Accept header contains image/webp
AcceptsWebp ==
  /\ env.AUTO_WEBP = "Yes"
  /\ event.headers.defined
  /\ event.headers.Accept # UndefStr
  /\ \E i \in 1..Len(event.headers.Accept) : event.headers.Accept[i] = "image/webp"

\* the outputFormat field of a Default record, Undef when absent or another dialect
RecordOutputFormat ==
  IF descriptor.requestType = "Default" THEN event.payload.outputFormat ELSE Undef

FormatByPriority ==
  IF ParsedEdits # UndefEdits /\ "toFormat" \in Keys(ParsedEdits)
  THEN Val(ParsedEdits, "toFormat")
  ELSE IF AcceptsWebp THEN "webp"
  ELSE RecordOutputFormat

\* C13: for a non-SVG original the descriptor's outputFormat is the format the
\* priority order picks (toFormat edit, else webp under auto-WebP with Accept
\* image/webp, else the Default record's outputFormat, else none); contentType
\* is image/ followed by that format when there is one, and otherwise the
\* content type derived from the fetched object.
C13_FormatPriorityForNonSvg ==
  (pc = "returned" /\ fetched # SvgType) =>
    /\ descriptor.outputFormat = FormatByPriority
    /\ descriptor.contentType =
         IF FormatByPriority # Undef THEN <<"image/", FormatByPriority>> ELSE fetched

\* C13 witness: auto-WebP with Accept image/webp wins over the outputFormat
\* tiff of a Default record that has no toFormat edit, for a JPEG original
C13_Witness ==
  /\ pc = "returned"
  /\ fetched = <<"image/", "jpeg">>
  /\ descriptor.requestType = "Default"
  /\ event.payload.outputFormat = "tiff"
  /\ ParsedEdits = <<[k |-> "resize", v |-> "100x100"]>>
  /\ AcceptsWebp
  /\ descriptor.outputFormat = "webp"
  /\ descriptor.contentType = <<"image/", "webp">>

\* the integer part of a number given in tenths
IntegerPart(tenths) ==
  CHOOSE n \in -10..10 :
    IF tenths >= 0 THEN n * 10 <= tenths /\ tenths < n * 10 + 10
    ELSE n * 10 >= tenths /\ tenths > n * 10 - 10

\* the effort a record's reductionEffort stands for: its integer part when
\* that is a number (null counting as 0) within 0..6, and 4 otherwise
EffortOfRecord ==
  LET r == event.payload.reductionEffort
      n == IF r.type = "null" THEN 0 ELSE IntegerPart(r.tenths)
  IN IF r.type \in {"number", "null"} /\ n >= 0 /\ n <= 6 THEN n ELSE 4

\* what getOutputFormat looks at: webp when AcceptsWebp, else the Default
\* record's outputFormat; the toFormat edit plays no part
FormatSniffed == IF AcceptsWebp THEN "webp" ELSE RecordOutputFormat

\* setup skips the negotiation for an SVG original with empty edits
NegotiationSkipped == fetched = SvgType /\ ParsedEdits = <<>>

\* C14, as stated: a descriptor carries reductionEffort only when the dialect
\* is Default and the format picked by the priority order (toFormat edit, then
\* auto-WebP Accept sniff, then record outputFormat) is webp; the value is the
\* record's reductionEffort truncated when within 0..6 and 4 otherwise, so it
\* always lies in 0..6.
C14_EffortOnlyWhenPriorityFormatIsWebp ==
  (pc = "returned" /\ descriptor.reductionEffort.defined) =>
    /\ descriptor.requestType = "Default"
    /\ FormatByPriority = "webp"
    /\ descriptor.reductionEffort.value = EffortOfRecord
    /\ descriptor.reductionEffort.value \in 0..6

\* C14, amended: a descriptor carries reductionEffort exactly when the dialect
\* is Default, the record has a reductionEffort, the negotiation was not
\* skipped, and the format sniffed without regard to the toFormat edit
\* (auto-WebP Accept sniff, then record outputFormat) is webp; the value is
\* the record's reductionEffort truncated when within 0..6 and 4 otherwise, so
\* it always lies in 0..6.
C14_EffortWhenSniffedFormatIsWebp ==
  pc = "returned" =>
    /\ descriptor.reductionEffort.defined <=>
         /\ descriptor.requestType = "Default"
         /\ event.payload.reductionEffort.type # "undefined"
         /\ ~NegotiationSkipped
         /\ FormatSniffed = "webp"
    /\ descriptor.reductionEffort.defined =>
         /\ descriptor.reductionEffort.value = EffortOfRecord
         /\ descriptor.reductionEffort.value \in 0..6

\* C14 witness: a record with toFormat gif, outputFormat webp and
\* reductionEffort -0.5 yields outputFormat gif with reductionEffort 0
C14_Witness ==
  /\ pc = "returned"
  /\ descriptor.requestType = "Default"
  /\ ParsedEdits = <<[k |-> "toFormat", v |-> "gif"]>>
  /\ event.payload.outputFormat = "webp"
  /\ event.payload.reductionEffort = [type |-> "number", tenths |-> -5]
  /\ descriptor.outputFormat = "gif"
  /\ descriptor.reductionEffort = [defined |-> TRUE, value |-> 0]

====
